---------------------------- MODULE Spec2Model ----------------------------
(***************************************************************************)
(* Model of src/jni/jni_internals.h: the dispatch generator                *)
(* (dispatch<F, Prelude...>::unwrap, dispatch_v / dispatch_a), the three   *)
(* ManagedMethod registration operations, the descriptor and object data   *)
(* model, the field registration macros, the Class Registry and the native *)
(* resolution seam.                                                        *)
(*                                                                         *)
(* Four specifications share the variables:                                *)
(*   Spec          registration of one function F, then calls through the  *)
(*                 two generated entry points;                             *)
(*   SpecRegistry  class registration, then native resolution;             *)
(*   SpecObjects   class registration interleaved with object construction;*)
(*   SpecFields    field tables built with the REGISTER_* macros.          *)
(*                                                                         *)
(* Widths are scaled: one model word stands for 32 bits and holds one      *)
(* element of WordValues.  jint and jfloat are one word; pointers (64-bit  *)
(* target), jdouble and a jvalue slot are two words.                       *)
(***************************************************************************)
EXTENDS Integers, Sequences, FiniteSets, TLC

\* Largest number of parameters of the registered function F.
MaxParams == 4

\* Number of Class descriptors the program defines (Class pointers 1 .. NumClasses).
NumClasses == 3
\* Largest number of Objects constructed.
MaxObjects == 2
\* Largest number of members of the class a field table is built for.
MaxMembers == 3

None == "none"
NULL == 0

RECURSIVE SeqsUpTo(_, _)
SeqsUpTo(S, n) ==
    IF n = 0 THEN {<<>>}
    ELSE LET shorter == SeqsUpTo(S, n - 1)
         IN shorter \cup {Append(s, x) : s \in {t \in shorter : Len(t) = n - 1}, x \in S}

\* The tuples whose i-th element is drawn from the set D[T[i]].
RECURSIVE TuplesOver(_, _)
TuplesOver(T, D) ==
    IF T = <<>> THEN {<<>>}
    ELSE {<<x>> \o t : x \in D[Head(T)], t \in TuplesOver(Tail(T), D)}

RECURSIVE SumSeq(_)
SumSeq(s) == IF s = <<>> THEN 0 ELSE Head(s) + SumSeq(Tail(s))

-----------------------------------------------------------------------------
(* Types and values *)

\* The parameter types F may use.  jfloat stands for the types the default
\* argument promotions change (jfloat; likewise jboolean, jbyte, jchar, jshort).
Types == {"JNIEnv", "jobject", "jclass", "jint", "jfloat"}
RetTypes == {"void", "jint"}

WordValues == {0, 1}
Radix == Cardinality(WordValues)

RECURSIVE RadixPow(_)
RadixPow(n) == IF n = 0 THEN 1 ELSE Radix * RadixPow(n - 1)

\* sizeof, in words.
SizeOf(t) == IF t \in {"jint", "jfloat"} THEN 1 ELSE 2
\* sizeof(jvalue): the union is as wide as its widest member.
SizeOfJvalue == 2

ValuesOf(t) == 0 .. (RadixPow(SizeOf(t)) - 1)
SlotValues == 0 .. (RadixPow(SizeOfJvalue) - 1)

-----------------------------------------------------------------------------
VARIABLES
    fn,        \* the function F given to a registration operation: [ret, params]
    build,     \* "pending" | "ok" | "failed": the outcome of compiling the registration
    shape,     \* which registration operation was instantiated
    method,    \* the ManagedMethod the registration returned: <<descriptor>>, or <<>>
    pre,       \* the prelude values the caller passes
    args,      \* the caller's call arguments, one typed value per remaining parameter
    va,        \* the variable-argument stream the caller built
    arr,       \* the memory the caller's jvalue array lies in (slot i at arr[i + 1])
    callerArr, \* the caller's own pointer to the array (a slot offset)
    frame,     \* the running entry point (status "idle": none is running)
    calls,     \* the calls of F made by the running entry point (argument tuples)
    ret,       \* what the running entry point's call of F produced: <<value>>, or <<>>
    results,   \* per entry point, the outcome of its invocation with the current arguments
    registry,  \* ClassRegistry: the vector of Class pointers
    regRet,    \* the last register_class call: its argument and the value it returned
    objects,   \* the Objects constructed so far
    slots,     \* NativeMethod function-pointer slots (*ptr)
    modules,   \* per foreign module, the state of its resolution
    bound,     \* per foreign module, the import bindings resolution made
    layout,    \* the C++ class the field table is built for
    fields     \* the FieldId table built with the macros

dispatchVars == <<fn, build, shape, method, pre, args, va, arr, callerArr, frame, calls, ret, results>>
registryVars == <<registry, regRet, objects, slots, modules, bound>>
fieldVars == <<layout, fields>>
vars == <<dispatchVars, registryVars, fieldVars>>


-----------------------------------------------------------------------------
(* Signature introspection and registration (compile time) *)

\* get_function_args<F>::sig::args: the tuple of F's parameter types.
get_function_args(f) == f.params

\* The Prelude pack each registration operation hands to dispatch<F, Prelude...>.
PreludeOf(s) ==
    CASE s = "virtual" -> <<"JNIEnv", "jobject">>
      [] s = "static" -> <<"JNIEnv", "jclass">>
      [] s = "nonvirtual" -> <<"JNIEnv", "jobject", "jclass">>

\* The partial specialisation unwrap<R(Prelude..., Args...)> exists for F's type
\* exactly when F's leading parameter types are the Prelude pack; otherwise
\* sig is an incomplete type and sig::dispatch_v does not compile.
UnwrapMatches(params, prelude) ==
    /\ Len(params) >= Len(prelude)
    /\ SubSeq(params, 1, Len(prelude)) = prelude

\* The static_asserts of ManagedMethod::Register.
RegisterAsserts(a) ==
    /\ Len(a) >= 2
    /\ a[1] = "JNIEnv"
    /\ a[2] = "jobject"

\* The static_asserts of ManagedMethod::RegisterStatic.
RegisterStaticAsserts(a) ==
    /\ Len(a) >= 2
    /\ a[1] = "JNIEnv"
    /\ a[2] = "jclass"

\* The static_asserts of ManagedMethod::RegisterNonVirtual.
RegisterNonVirtualAsserts(a) ==
    /\ Len(a) >= 3
    /\ a[1] = "JNIEnv"
    /\ a[2] = "jobject"
    /\ a[3] = "jclass"

\* Whether Register<F> compiles.
RegisterCompiles(f) ==
    /\ RegisterAsserts(get_function_args(f))
    /\ UnwrapMatches(f.params, PreludeOf("virtual"))

\* RegisterStatic written as a copy of Register (receiver where the class
\* handle belongs).
RegisterStaticCompilesAsVirtual(f) == RegisterCompiles(f)

\* Whether RegisterStatic<F> compiles.
RegisterStaticCompiles(f) ==
    /\ RegisterStaticAsserts(get_function_args(f))
    /\ UnwrapMatches(f.params, PreludeOf("static"))

\* Whether RegisterNonVirtual<F> compiles.
RegisterNonVirtualCompiles(f) ==
    /\ RegisterNonVirtualAsserts(get_function_args(f))
    /\ UnwrapMatches(f.params, PreludeOf("nonvirtual"))

\* The descriptor a registration operation returns: the owning class, name and
\* signature passed through, and the two entry points of dispatch<F, Prelude...>.
ManagedMethod(s, clazz, name, signature) ==
    [clazz |-> clazz, name |-> name, signature |-> signature,
     addr_variadic |-> <<"vargs", PreludeOf(s)>>,
     addr_array |-> <<"aargs", PreludeOf(s)>>]

\* One registration operation, instantiated for fn: it compiles and returns the
\* descriptor, or the build fails and no program (and no descriptor) exists.
RegisterOp(s, compiles) ==
    /\ build = "pending"
    /\ shape' = s
    /\ IF compiles
       THEN /\ build' = "ok"
            /\ method' = <<ManagedMethod(s, 1, "m", "sig")>>
       ELSE /\ build' = "failed"
            /\ method' = <<>>
    /\ UNCHANGED <<fn, pre, args, va, arr, callerArr, frame, calls, ret, results>>
    /\ UNCHANGED <<registryVars, fieldVars>>

Register == RegisterOp("virtual", RegisterCompiles(fn))
RegisterStatic == RegisterOp("static", RegisterStaticCompiles(fn))
RegisterNonVirtual == RegisterOp("nonvirtual", RegisterNonVirtualCompiles(fn))

-----------------------------------------------------------------------------
(* The caller of an entry point *)

\* Args...: F's parameters after the Prelude pack.
ArgsOf(f, m) == SubSeq(f.params, Len(m.addr_variadic[2]) + 1, Len(f.params))

\* The handles a caller's context supplies for a prelude parameter.
HandlesOf(t) ==
    CASE t = "JNIEnv" -> {1}
      [] t = "jobject" -> {2, 3}
      [] t = "jclass" -> {3}

\* The default argument promotions: what an argument of type t becomes when it
\* is passed through "...".
PromotedType(t) == IF t = "jfloat" THEN "jdouble" ELSE t

\* The caller stores v in the jvalue member of type t; the slot's remaining
\* words keep whatever they held (g).
Pack(t, v, g) == v + RadixPow(SizeOf(t)) * g

PaddingOf(t) == 0 .. (RadixPow(SizeOfJvalue - SizeOf(t)) - 1)

\* The caller chooses prelude handles and one value per remaining parameter,
\* and lays the values out both ways: as a variable-argument stream and packed
\* one per slot into a jvalue array.
CallerSetup ==
    /\ build = "ok"
    /\ frame.status = "idle"
    /\ pre = <<>>
    /\ LET A == ArgsOf(fn, method[1])
           P == method[1].addr_variadic[2]
           k == Len(A)
       IN \E h \in TuplesOver(P, [t \in {"JNIEnv", "jobject", "jclass"} |-> HandlesOf(t)]),
             v \in TuplesOver(A, [t \in Types |-> ValuesOf(t)]),
             g \in TuplesOver(A, [t \in Types |-> PaddingOf(t)]) :
            /\ pre' = h
            /\ args' = v
            /\ va' = [i \in 1 .. k |-> [type |-> PromotedType(A[i]), val |-> v[i]]]
            /\ arr' = [i \in 1 .. k |-> Pack(A[i], v[i], g[i])]
    /\ callerArr' = 0
    /\ results' = [v |-> <<>>, a |-> <<>>]
    /\ UNCHANGED <<fn, build, shape, method, frame, calls, ret>>
    /\ UNCHANGED <<registryVars, fieldVars>>

-----------------------------------------------------------------------------
(* dispatch<F, Prelude...>::unwrap<R(Prelude..., Args...)> *)

\* F: a stand-in that records its argument tuple (in calls) and returns a value
\* that depends on every argument.
F(f, a) == IF f.ret = "void" THEN <<>> ELSE <<(SumSeq(a) + 1) % RadixPow(SizeOf(f.ret))>>

\* The clauses of a braced initialiser list are evaluated right to left.
EvalOrderRightToLeft(n, k) == k + 1 - n

\* BraceCall{...} / BraceCallVoid{...}: the n-th clause evaluated, of k, is the
\* n-th clause written (brace initialisation evaluates left to right).
EvalOrder(n, k) == n

\* va_arg(va, T) on the stream's next element: the element when its promoted
\* type is T.  Otherwise the behaviour is undefined: the build traps (gcc
\* replaces the read by an abort) or yields some value of T.
va_arg(stream, pos, T) ==
    IF pos \in DOMAIN stream /\ stream[pos].type = T
    THEN {[trap |-> FALSE, val |-> stream[pos].val]}
    ELSE {[trap |-> TRUE, val |-> 0]} \cup {[trap |-> FALSE, val |-> x] : x \in ValuesOf(T)}

\* auto get = [&]() { return ++arr; }
getPreIncrement(p) == [ptr |-> p + 1, arr |-> p + 1]

\* auto get = [&]() { return arr++; }: the slot pointer returned, and arr after.
get(p) == [ptr |-> p, arr |-> p + 1]

\* The slot at pointer p (memory past the caller's array reads as 0).
SlotAt(mem, p) == IF p + 1 \in DOMAIN mem THEN mem[p + 1] ELSE 0

\* *((T*)p): the slot's leading sizeof(T) words, read as a T.
Deref(T, slot) == slot % RadixPow(SizeOf(T))

\* The values extracted so far, by parameter position.
Extracted(got, k) == [i \in 1 .. k |-> (CHOOSE e \in {got[j] : j \in 1 .. Len(got)} : e.pos = i).val]

Running(m) == frame.mode = m /\ frame.status = "extract"

NoFrame == [mode |-> None, status |-> "idle", got |-> <<>>, reads |-> <<>>, cur |-> 0]

\* Whether the caller has laid out arguments (every prelude holds a handle).
ArgsReady == pre # <<>>

\* Entry into dispatch_v(pre_args..., va) or dispatch_a(pre_args..., arr): the
\* array pointer is passed by value.
Enter(m) ==
    /\ build = "ok"
    /\ frame.status = "idle"
    /\ ArgsReady
    /\ results[m] = <<>>
    /\ frame' = [mode |-> m, status |-> "extract", got |-> <<>>, reads |-> <<>>,
                 cur |-> IF m = "a" THEN callerArr ELSE 1]
    /\ calls' = <<>>
    /\ ret' = <<>>
    /\ UNCHANGED <<fn, build, shape, method, pre, args, va, arr, callerArr, results>>
    /\ UNCHANGED <<registryVars, fieldVars>>

dispatch_v == Enter("v")
dispatch_a == Enter("a")

\* (Args)va_arg(va, Args): the next clause of the initialiser list in dispatch_v.
VaArg ==
    /\ Running("v")
    /\ LET A == ArgsOf(fn, method[1])
           k == Len(A)
           n == Len(frame.got) + 1
       IN /\ n <= k
          /\ \E o \in va_arg(va, frame.cur, A[EvalOrder(n, k)]) :
               IF o.trap
               THEN /\ frame' = [frame EXCEPT !.status = "trapped"]
                    /\ results' = [results EXCEPT !.v = <<[aborted |-> TRUE, ret |-> <<>>, calls |-> calls, got |-> frame.got]>>]
               ELSE /\ frame' = [frame EXCEPT !.got = Append(@, [pos |-> EvalOrder(n, k), val |-> o.val]),
                                              !.reads = Append(@, frame.cur),
                                              !.cur = @ + 1]
                    /\ UNCHANGED results
    /\ UNCHANGED <<fn, build, shape, method, pre, args, va, arr, callerArr, calls, ret>>
    /\ UNCHANGED <<registryVars, fieldVars>>

\* *((Args*)get()): the next clause of the initialiser list in dispatch_a.
Get ==
    /\ Running("a")
    /\ LET A == ArgsOf(fn, method[1])
           k == Len(A)
           n == Len(frame.got) + 1
           r == get(frame.cur)
       IN /\ n <= k
          /\ frame' = [frame EXCEPT !.got = Append(@, [pos |-> EvalOrder(n, k),
                                                      val |-> Deref(A[EvalOrder(n, k)], SlotAt(arr, r.ptr))]),
                                    !.reads = Append(@, r.ptr),
                                    !.cur = r.arr]
    /\ UNCHANGED <<fn, build, shape, method, pre, args, va, arr, callerArr, calls, ret, results>>
    /\ UNCHANGED <<registryVars, fieldVars>>

\* The constructor body, once every clause is evaluated: F(args...), its value
\* kept in ret (BraceCall) or nothing kept (BraceCallVoid).
CallF(isVoid) ==
    /\ frame.status = "extract"
    /\ (fn.ret = "void") = isVoid
    /\ LET k == Len(ArgsOf(fn, method[1]))
           a == pre \o Extracted(frame.got, k)
       IN /\ Len(frame.got) = k
          /\ calls' = Append(calls, a)
          /\ ret' = F(fn, a)
    /\ frame' = [frame EXCEPT !.status = "called"]
    /\ UNCHANGED <<fn, build, shape, method, pre, args, va, arr, callerArr, results>>
    /\ UNCHANGED <<registryVars, fieldVars>>

BraceCall == CallF(FALSE)
BraceCallVoid == CallF(TRUE)

\* return BraceCall{...}.ret; or the end of a void entry point.
Return ==
    /\ frame.status = "called"
    /\ results' = [results EXCEPT ![frame.mode] =
                       <<[aborted |-> FALSE, ret |-> ret, calls |-> calls, got |-> frame.got]>>]
    /\ frame' = NoFrame
    /\ UNCHANGED <<fn, build, shape, method, pre, args, va, arr, callerArr, calls, ret>>
    /\ UNCHANGED <<registryVars, fieldVars>>

-----------------------------------------------------------------------------
RegistryIdle ==
    /\ registry = <<>>
    /\ regRet = [clazz |-> NULL, ret |-> 0]
    /\ objects = {}
    /\ slots = <<>>
    /\ modules = <<>>
    /\ bound = <<>>

FieldsIdle ==
    /\ layout = <<>>
    /\ fields = <<>>

DispatchIdle ==
    /\ fn = None
    /\ build = "pending"
    /\ shape = None
    /\ method = <<>>
    /\ pre = <<>>
    /\ args = <<>>
    /\ va = <<>>
    /\ arr = <<>>
    /\ callerArr = 0
    /\ frame = NoFrame
    /\ calls = <<>>
    /\ ret = <<>>
    /\ results = [v |-> <<>>, a |-> <<>>]

\* Any function F of at most MaxParams parameters, not yet registered.
Init ==
    /\ fn \in [ret : RetTypes, params : SeqsUpTo(Types, MaxParams)]
    /\ build = "pending"
    /\ shape = None
    /\ method = <<>>
    /\ pre = <<>>
    /\ args = <<>>
    /\ va = <<>>
    /\ arr = <<>>
    /\ callerArr = 0
    /\ frame = NoFrame
    /\ calls = <<>>
    /\ ret = <<>>
    /\ results = [v |-> <<>>, a |-> <<>>]
    /\ RegistryIdle
    /\ FieldsIdle

Next ==
    \/ Register
    \/ RegisterStatic
    \/ RegisterNonVirtual
    \/ CallerSetup
    \/ dispatch_v
    \/ dispatch_a
    \/ VaArg
    \/ Get
    \/ BraceCall
    \/ BraceCallVoid
    \/ Return

Spec == Init /\ [][Next]_vars

-----------------------------------------------------------------------------
(* Claims about registration and dispatch, checked under Spec *)

\* The remaining parameters of F and their number, for the registered method.
RemainingArgs == ArgsOf(fn, method[1])
NumRemaining == Len(RemainingArgs)

\* The single call F(prelude..., a1, ..., ak) the caller's arguments stand for.
ExpectedCall == pre \o args

\* C1: through dispatch_a the slots are read in increasing index order, the
\* i-th remaining parameter receives the value the caller packed into slot i,
\* every slot is read before F is invoked, and F is called once as
\* F(prelude..., a1, ..., ak).
C1_ArrayExtractionOrder ==
    /\ frame.mode = "a" =>
         /\ \A n \in 1 .. Len(frame.reads) : frame.reads[n] = callerArr + n - 1
         /\ \A n \in 1 .. Len(frame.got) : frame.got[n].pos = n /\ frame.got[n].val = args[n]
         /\ calls # <<>> => Len(frame.reads) = NumRemaining /\ calls = <<ExpectedCall>>
    /\ results.a # <<>> => results.a[1].calls = <<ExpectedCall>>

\* C1 witness: dispatch_a has called F with two remaining parameters that hold
\* different values, each slot carrying padding beside its value.
C1_Witness ==
    /\ frame.mode = "a"
    /\ frame.status = "called"
    /\ NumRemaining = 2
    /\ args[1] # args[2]
    /\ arr[1] # args[1]

\* C2: with the same arguments, dispatch_v and dispatch_a end the same way:
\* the same return value and the same calls of F.
C2_VariadicArrayEquivalence ==
    (results.v # <<>> /\ results.a # <<>>) =>
        /\ results.v[1].aborted = results.a[1].aborted
        /\ results.v[1].ret = results.a[1].ret
        /\ results.v[1].calls = results.a[1].calls

\* C3: an invocation of either entry point calls F exactly once; for a void F
\* it yields no value, otherwise exactly the value F returned.
C3_CallOnceAndReturn ==
    \A m \in {"v", "a"} :
        results[m] # <<>> =>
            /\ ~results[m][1].aborted
            /\ Len(results[m][1].calls) = 1
            /\ results[m][1].ret = F(fn, results[m][1].calls[1])
            /\ (fn.ret = "void") = (results[m][1].ret = <<>>)

\* C4: a registration operation accepts F only when F has at least as many
\* parameters as the shape's prelude (2, 2, 3) and its leading parameter types
\* are that prelude; any other F is rejected without a descriptor; an F whose
\* first parameter is not the environment handle is never accepted.
C4_Prelude ==
    [virtual |-> <<"JNIEnv", "jobject">>,
     static |-> <<"JNIEnv", "jclass">>,
     nonvirtual |-> <<"JNIEnv", "jobject", "jclass">>]

C4_Matches ==
    /\ Len(fn.params) >= Len(C4_Prelude[shape])
    /\ \A i \in 1 .. Len(C4_Prelude[shape]) : fn.params[i] = C4_Prelude[shape][i]

C4_PreludeEnforced ==
    /\ build = "ok" => C4_Matches /\ method # <<>>
    /\ (build # "pending" /\ ~C4_Matches) => build = "failed" /\ method = <<>>
    /\ (fn.params = <<>> \/ Head(fn.params) # "JNIEnv") => build # "ok"

\* C4 witness: a function with enough parameters whose first parameter is the
\* environment handle but whose second is not the shape's handle was rejected.
C4_Witness ==
    /\ build = "failed"
    /\ method = <<>>
    /\ shape = "static"
    /\ Len(fn.params) >= 2
    /\ fn.params[1] = "JNIEnv"
    /\ fn.params[2] = "jobject"

\* C9: dispatch_v extracts once per remaining parameter, in declaration order,
\* all before F is invoked, and every invocation invokes F with the prelude in
\* front of the k extracted values (the prelude alone when k = 0).
C9_VariadicExtraction ==
    /\ frame.mode = "v" =>
         /\ \A n \in 1 .. Len(frame.got) : frame.got[n].pos = n /\ frame.reads[n] = n
         /\ calls # <<>> => Len(frame.got) = NumRemaining
    /\ results.v # <<>> =>
         /\ Len(results.v[1].got) = NumRemaining
         /\ results.v[1].calls = <<pre \o Extracted(results.v[1].got, NumRemaining)>>

\* C10: dispatch_a advances its cursor once per slot read, reads exactly the
\* slots 0 .. k-1, and leaves the caller's pointer and the array as they were.
C10_Reads ==
    frame.mode = "a" =>
        /\ frame.cur = callerArr + Len(frame.reads)
        /\ Len(frame.reads) <= NumRemaining
        /\ \A n \in 1 .. Len(frame.reads) : frame.reads[n] = callerArr + n - 1
        /\ frame.status = "called" => frame.cur = callerArr + NumRemaining

C10_ArrayFrame ==
    /\ []C10_Reads
    /\ [][frame.mode = "a" => (arr' = arr /\ callerArr' = callerArr)]_vars

\* C10 witness: dispatch_a has read every slot of a two-slot array and called F.
C10_Witness ==
    /\ frame.mode = "a"
    /\ frame.status = "called"
    /\ NumRemaining = 2
    /\ frame.reads = <<0, 1>>
    /\ frame.cur = 2

-----------------------------------------------------------------------------
(* Descriptors, the Class Registry and Objects *)

ClassPtrs == 1 .. NumClasses

\* The Class descriptors the program defines, by address.  Descriptors 1 and 3
\* carry the same classpath and classname.
ClassAt(c) ==
    [classpath |-> IF c % 2 = 1 THEN "com/a" ELSE "com/b",
     classname |-> IF c % 2 = 1 THEN "X" ELSE "Y",
     managed_methods |-> IF c = 2
                         THEN <<[name |-> "run", signature |-> "()V"]>>
                         ELSE <<[name |-> "run", signature |-> "()V"],
                                [name |-> "get", signature |-> "()I"]>>,
     native_methods |-> <<[name |-> "nativeInit",
                           soname |-> IF c = 1 THEN "libA" ELSE "libB",
                           ptr |-> c]>>]

ClassKey(c) == <<ClassAt(c).classpath, ClassAt(c).classname>>

RegisteredKeys(reg) == {ClassKey(reg[i]) : i \in 1 .. Len(reg)}

\* ClassRegistry::get_class_registry(): the ordered collection itself.
get_class_registry == registry

\* register_class appends whatever it is given.
register_class_always(reg, c) == [registry |-> Append(reg, c), ret |-> 1]

\* ClassRegistry::register_class(clazz): appends the descriptor and returns 1,
\* or, when its (classpath, classname) pair is already present, leaves the
\* registry alone and returns 0.
register_class(reg, c) ==
    IF ClassKey(c) \in RegisteredKeys(reg)
    THEN [registry |-> reg, ret |-> 0]
    ELSE [registry |-> Append(reg, c), ret |-> 1]

ModuleNames == {"libA", "libB", "libC"}

NoModuleResolved == \A m \in ModuleNames : modules[m] = "unresolved"

\* A register_class call, made during initialisation (before any foreign
\* module is resolved).
RegisterClass ==
    /\ NoModuleResolved
    /\ \E c \in ClassPtrs :
         LET r == register_class(registry, c)
         IN /\ registry' = r.registry
            /\ regRet' = [clazz |-> c, ret |-> r.ret]
    /\ UNCHANGED <<objects, slots, modules, bound>>
    /\ UNCHANGED <<dispatchVars, fieldVars>>

\* Object::Object(clz) : clazz(clz)
Object(clz) == [clazz |-> clz]

\* Construction of a plain Object from any Class pointer.
NewObject ==
    /\ Cardinality(objects) < MaxObjects
    /\ \E clz \in {NULL} \cup ClassPtrs :
         objects' = objects \cup {[kind |-> "Object", header |-> Object(clz), instance_clazz |-> NULL]}
    /\ UNCHANGED <<registry, regRet, slots, modules, bound>>
    /\ UNCHANGED <<dispatchVars, fieldVars>>

\* Construction of an ArrayObject: its Object base is built by Object::Object,
\* the element class is stored beside it (an empty array).
NewArrayObject ==
    /\ Cardinality(objects) < MaxObjects
    /\ \E clz \in {NULL} \cup ClassPtrs, inst \in ClassPtrs :
         objects' = objects \cup {[kind |-> "ArrayObject", header |-> Object(clz), instance_clazz |-> inst]}
    /\ UNCHANGED <<registry, regRet, slots, modules, bound>>
    /\ UNCHANGED <<dispatchVars, fieldVars>>

-----------------------------------------------------------------------------
(* Native resolution *)

\* The foreign modules the loader loads: the imports each leaves unresolved,
\* keyed by (classpath, classname, method name, signature), and the symbols it
\* exports.  libC asks for a signature no descriptor carries.
ModuleAt(m) ==
    CASE m = "libA" -> [imports |-> <<<<"com/a", "X", "run", "()V">>>>,
                        exports |-> {"nativeInit"}, base |-> 16]
      [] m = "libB" -> [imports |-> <<<<"com/b", "Y", "run", "()V">>, <<"com/a", "X", "get", "()I">>>>,
                        exports |-> {"nativeInit"}, base |-> 32]
      [] m = "libC" -> [imports |-> <<<<"com/a", "X", "run", "()I">>>>,
                        exports |-> {}, base |-> 48]

\* The address of a symbol a module exports.
ExportAddr(m, sym) == ModuleAt(m).base + 1

\* The key of managed method j of class c.
MethodKey(c, j) ==
    <<ClassAt(c).classpath, ClassAt(c).classname,
      ClassAt(c).managed_methods[j].name, ClassAt(c).managed_methods[j].signature>>

\* The descriptors of the registry whose key is exactly key, in registry order.
Matches(reg, key) ==
    {[clazz |-> reg[i], index |-> j] : i \in 1 .. Len(reg), j \in 1 .. 2} \cap
    {d \in [clazz : ClassPtrs, index : 1 .. 2] :
        /\ d.index \in DOMAIN ClassAt(d.clazz).managed_methods
        /\ MethodKey(d.clazz, d.index) = key}

\* The descriptor an import is bound to: <<descriptor>>, or <<>> when none matches.
Lookup(reg, key) ==
    IF Matches(reg, key) = {} THEN <<>>
    ELSE <<CHOOSE d \in Matches(reg, key) : TRUE>>

\* The NativeMethods of registered classes that name module m.
NativesOf(reg, m) ==
    {ClassAt(reg[i]).native_methods[1] : i \in 1 .. Len(reg)} \cap
    {ClassAt(c).native_methods[1] : c \in {d \in ClassPtrs : ClassAt(d).native_methods[1].soname = m}}

\* Resolution that binds an unmatched import to the registry's first method.
resolve_native_default(reg, ptrs, m) ==
    LET imports == ModuleAt(m).imports
    IN [status |-> "resolved",
        bound |-> [i \in 1 .. Len(imports) |->
                      IF Lookup(reg, imports[i]) # <<>> THEN Lookup(reg, imports[i])
                      ELSE <<[clazz |-> IF reg = <<>> THEN 1 ELSE reg[1], index |-> 1]>>],
        slots |-> [p \in DOMAIN ptrs |->
                      IF \E nm \in NativesOf(reg, m) : nm.ptr = p /\ nm.name \in ModuleAt(m).exports
                      THEN ExportAddr(m, "nativeInit") ELSE ptrs[p]]]

\* jni_resolve_native(so): binds every import of the module to the matching
\* descriptor and every NativeMethod slot naming the module to the module's
\* symbol; when an import or a symbol has no match, binds nothing and reports
\* the failure.
resolve_native(reg, ptrs, m) ==
    LET imports == ModuleAt(m).imports
        found == [i \in 1 .. Len(imports) |-> Lookup(reg, imports[i])]
        natives == NativesOf(reg, m)
        ok == /\ \A i \in 1 .. Len(imports) : found[i] # <<>>
              /\ \A nm \in natives : nm.name \in ModuleAt(m).exports
    IN IF ok
       THEN [status |-> "resolved",
             bound |-> found,
             slots |-> [p \in DOMAIN ptrs |->
                           IF \E nm \in natives : nm.ptr = p
                           THEN ExportAddr(m, (CHOOSE nm \in natives : nm.ptr = p).name)
                           ELSE ptrs[p]]]
       ELSE [status |-> "failed",
             bound |-> [i \in 1 .. Len(imports) |-> <<>>],
             slots |-> ptrs]

\* The loader resolves a freshly loaded module, once per module.
ResolveNative ==
    /\ \E m \in ModuleNames :
         /\ modules[m] = "unresolved"
         /\ LET r == resolve_native(registry, slots, m)
            IN /\ modules' = [modules EXCEPT ![m] = r.status]
               /\ bound' = [bound EXCEPT ![m] = r.bound]
               /\ slots' = r.slots
    /\ UNCHANGED <<registry, regRet, objects>>
    /\ UNCHANGED <<dispatchVars, fieldVars>>

\* Before initialisation: an empty registry, no Objects, every NativeMethod
\* slot null, no module resolved.
InitRegistry ==
    /\ registry = <<>>
    /\ regRet = [clazz |-> NULL, ret |-> 0]
    /\ objects = {}
    /\ slots = [p \in ClassPtrs |-> NULL]
    /\ modules = [m \in ModuleNames |-> "unresolved"]
    /\ bound = [m \in ModuleNames |-> [i \in 1 .. Len(ModuleAt(m).imports) |-> <<>>]]
    /\ DispatchIdle
    /\ FieldsIdle

NextRegistry ==
    \/ RegisterClass
    \/ ResolveNative

SpecRegistry == InitRegistry /\ [][NextRegistry]_vars

NextObjects ==
    \/ RegisterClass
    \/ NewObject
    \/ NewArrayObject

SpecObjects == InitRegistry /\ [][NextObjects]_vars

-----------------------------------------------------------------------------
(* Claims about the registry and resolution, checked under SpecRegistry, and *)
(* about Objects, checked under SpecObjects                                  *)

\* C5: the registry never holds two entries with the same (classpath,
\* classname) pair; a register_class call for a pair already present is flagged
\* (returns 0) and changes nothing; a call for a new pair appends the class at
\* the end, so N distinct classes give N entries in registration order; entries
\* are never removed or reordered.
C5_NoDuplicates ==
    /\ \A i, j \in 1 .. Len(registry) : ClassKey(registry[i]) = ClassKey(registry[j]) => i = j
    /\ Len(get_class_registry) = Cardinality(RegisteredKeys(registry))

C5_RegisterStep ==
    /\ Len(registry') >= Len(registry)
    /\ SubSeq(registry', 1, Len(registry)) = registry
    /\ regRet' # regRet =>
         IF ClassKey(regRet'.clazz) \in RegisteredKeys(registry)
         THEN registry' = registry /\ regRet'.ret = 0
         ELSE registry' = Append(registry, regRet'.clazz) /\ regRet'.ret = 1

C5_RegistryUnique ==
    /\ []C5_NoDuplicates
    /\ [][C5_RegisterStep]_vars

\* C5 witness: two distinct classes are registered in order and a third call,
\* for a descriptor repeating the first pair, was flagged.
C5_Witness ==
    /\ registry = <<1, 2>>
    /\ regRet = [clazz |-> 3, ret |-> 0]

\* C6: resolution never leaves a binding null or made up: a resolved module
\* has every import bound, every binding is a registry descriptor equal to the
\* import on all four strings, a module with an import nothing matches ends
\* failed; a NativeMethod's slot is null until its module is resolved and
\* holds the module's symbol address after a successful resolution.
C6_ResolutionBindings ==
    \A m \in ModuleNames :
        LET imports == ModuleAt(m).imports
        IN /\ modules[m] \in {"unresolved", "resolved", "failed"}
           /\ modules[m] = "resolved" => \A i \in 1 .. Len(imports) : bound[m][i] # <<>>
           /\ \A i \in 1 .. Len(imports) :
                bound[m][i] # <<>> =>
                    /\ \E n \in 1 .. Len(registry) : registry[n] = bound[m][i][1].clazz
                    /\ MethodKey(bound[m][i][1].clazz, bound[m][i][1].index) = imports[i]
           /\ (modules[m] # "unresolved" /\ \E i \in 1 .. Len(imports) : Matches(registry, imports[i]) = {})
                => modules[m] = "failed"
           /\ \A c \in ClassPtrs :
                LET nm == ClassAt(c).native_methods[1]
                IN nm.soname = m =>
                     /\ modules[m] # "resolved" => slots[nm.ptr] = NULL
                     /\ (modules[m] = "resolved" /\ \E n \in 1 .. Len(registry) : registry[n] = c)
                          => slots[nm.ptr] = ExportAddr(m, nm.name) /\ slots[nm.ptr] # NULL

\* C6 witness: libB is resolved with both imports bound and a NativeMethod
\* slot filled, while libC, whose import nothing matches, has failed.
C6_Witness ==
    /\ modules["libB"] = "resolved"
    /\ bound["libB"][2] # <<>>
    /\ slots[2] # NULL
    /\ modules["libC"] = "failed"
    /\ bound["libC"][1] = <<>>

\* C8: every Object's clazz is non-null and is one of the descriptors
\* currently in the Class Registry.
C8_ObjectClassRegistered ==
    \A o \in objects :
        /\ o.header.clazz # NULL
        /\ \E n \in 1 .. Len(registry) : registry[n] = o.header.clazz

-----------------------------------------------------------------------------
(* Field tables *)

\* The members a class may declare: static or per instance, one or two words.
Members == [static : BOOLEAN, size : {1, 2}]

\* sizeof(Object): the header is the clazz pointer.
SizeOfObject == SizeOf("jobject")

AlignUp(x, a) == ((x + a - 1) \div a) * a

\* The end of the instance after the first i members of class L (a class that
\* extends Object: the header comes first, then the non-static members in
\* declaration order, each aligned to its size).
RECURSIVE EndOf(_, _)
EndOf(L, i) ==
    IF i = 0 THEN SizeOfObject
    ELSE IF L[i].static THEN EndOf(L, i - 1)
    ELSE AlignUp(EndOf(L, i - 1), L[i].size) + L[i].size

\* offsetof(clz, member i), for a non-static member.
OffsetOf(L, i) == AlignUp(EndOf(L, i - 1), L[i].size)

\* sizeof(clz).
SizeOfClass(L) == AlignUp(EndOf(L, Len(L)), SizeOfObject)

\* The address of static member i (statics lie in the data segment).
StaticAddr(i) == 64 + 2 * i

\* &(((clz*)base)->member): the member's address in the instance at base; a
\* static member named through an instance is the static itself.
MemberAddr(L, base, i) == IF L[i].static THEN StaticAddr(i) ELSE base + OffsetOf(L, i)

\* Class::instance_size of clz::clazz: the byte size of one instance.
InstanceSize(L) == SizeOfClass(L)

\* The offset counted from the end of the Object header instead of the start
\* of the instance.
REGISTER_FIELD_FromPayload(L, i) ==
    [clazz |-> 1, name |-> i, signature |-> "", offset |-> MemberAddr(L, 0, i) - SizeOfObject, is_static |-> 0]

\* REGISTER_FIELD(clz, field): the signature is left unset.
REGISTER_FIELD(L, i) ==
    [clazz |-> 1, name |-> i, signature |-> "", offset |-> MemberAddr(L, 0, i), is_static |-> 0]

\* REGISTER_STATIC_FIELD(clz, field): &clz::field is an address only for a
\* static member (for a non-static member the cast does not compile).
REGISTER_STATIC_FIELD(L, i) ==
    [clazz |-> 1, name |-> i, signature |-> "", offset |-> StaticAddr(i), is_static |-> 1]

\* What a field accessor computes for an instance field: base plus offset.
FieldAddress(base, o) == base + o

Listed(i) == \E n \in 1 .. Len(fields) : fields[n].member = i

\* One more entry of the class's field table, written with REGISTER_FIELD.
AddField ==
    /\ \E i \in 1 .. Len(layout) :
         /\ ~Listed(i)
         /\ fields' = Append(fields, [macro |-> "REGISTER_FIELD", member |-> i, id |-> REGISTER_FIELD(layout, i)])
    /\ UNCHANGED layout
    /\ UNCHANGED <<dispatchVars, registryVars>>

\* One more entry of the class's field table, written with REGISTER_STATIC_FIELD.
AddStaticField ==
    /\ \E i \in 1 .. Len(layout) :
         /\ ~Listed(i)
         /\ layout[i].static
         /\ fields' = Append(fields, [macro |-> "REGISTER_STATIC_FIELD", member |-> i,
                                      id |-> REGISTER_STATIC_FIELD(layout, i)])
    /\ UNCHANGED layout
    /\ UNCHANGED <<dispatchVars, registryVars>>

\* Any class of at most MaxMembers members, its field table still empty.
InitFields ==
    /\ layout \in SeqsUpTo(Members, MaxMembers) \ {<<>>}
    /\ fields = <<>>
    /\ DispatchIdle
    /\ RegistryIdle

NextFields ==
    \/ AddField
    \/ AddStaticField

SpecFields == InitFields /\ [][NextFields]_vars

\* The base addresses instances are placed at.
Bases == {0, 8, 24}

\* C7: an instance field registered with REGISTER_FIELD has is_static 0, its
\* offset o satisfies address = base + o for every instance base and
\* o < instance size; a field registered with REGISTER_STATIC_FIELD stores the
\* field's absolute address with is_static 1.
C7_FieldAddressing ==
    \A n \in 1 .. Len(fields) :
        LET e == fields[n]
        IN /\ e.macro = "REGISTER_FIELD" => e.id.is_static = 0
           /\ (e.macro = "REGISTER_FIELD" /\ ~layout[e.member].static) =>
                /\ \A base \in Bases : FieldAddress(base, e.id.offset) = MemberAddr(layout, base, e.member)
                /\ e.id.offset < InstanceSize(layout)
                /\ e.id.offset >= 0
           /\ e.macro = "REGISTER_STATIC_FIELD" =>
                /\ \A base \in Bases : e.id.offset = MemberAddr(layout, base, e.member)
                /\ e.id.is_static = 1

\* C7 witness: the table lists an instance field that lies behind another
\* instance member, and a static field.
C7_Witness ==
    \E n, k \in 1 .. Len(fields) :
        /\ fields[n].macro = "REGISTER_FIELD"
        /\ ~layout[fields[n].member].static
        /\ fields[n].id.offset > SizeOfObject
        /\ fields[k].macro = "REGISTER_STATIC_FIELD"

=============================================================================
